---- MODULE Spec2Model ----
(***************************************************************************)
(* Model of kosta/date-iterator: CalendarDuration arithmetic on chrono     *)
(* DateTime<Utc> values (src/src/calendar_duration.rs, src/src/lib.rs) and *)
(* the date iterator family built on it (src/src/date_iterators.rs).       *)
(*                                                                         *)
(* A point in time is [year, month0, day, tod]; tod is the time of day in  *)
(* minutes (0..1439) and the elapsed part of a CalendarDuration is a       *)
(* whole number of minutes.  Every operation of the library leaves the     *)
(* sub-minute part of a point alone when the elapsed part is a whole       *)
(* number of minutes, so the seconds and milliseconds of the scenarios     *)
(* (57.123 s) are not carried.  The time zone is Utc.                      *)
(*                                                                         *)
(* An Option<T> is [tag, val] with tag "Some" or "None"; a third tag,      *)
(* "Panic", stands for the call aborting (unwrap/expect on None, or an     *)
(* arithmetic overflow in a build with overflow checks).                   *)
(***************************************************************************)
EXTENDS Integers, Sequences, FiniteSets, TLC

VARIABLES
    overflow_checks, \* build profile: TRUE = overflow panics, FALSE = wraps
    pc,              \* position in the function under test
    op,              \* which function is under test
    dt,              \* its point-in-time argument
    dur,             \* its CalendarDuration argument [duration, months, years]
    acc,             \* value flowing through checked_add's and_then chain
    res,             \* result of the function under test
    from,            \* OpenEndedDateIterator.from
    duration,        \* OpenEndedDateIterator.duration
    iterations,      \* OpenEndedDateIterator.iterations
    to,              \* ClosedDateIterator.to / ClosedPairwiseDateIterator.to
    kind,            \* which iterator type was constructed
    out,             \* value returned by the latest call to next
    calls,           \* number of calls to next that returned
    returned,        \* what each call to next returned, in call order
    bound_hit,       \* a call returned None because its value was not < to
    panicked         \* a call to next aborted

fnVars == <<pc, op, dt, dur, acc, res>>
itVars == <<from, duration, iterations, to, kind, out, calls, returned, bound_hit,
           panicked>>
vars == <<overflow_checks, pc, op, dt, dur, acc, res, from, duration, iterations,
          to, kind, out, calls, returned, bound_hit, panicked>>

----------------------------------------------------------------------------
(* Bounds of the model *)

MaxCalls == 5       \* calls to next made on one iterator
MaxMonths == 14     \* month counts -MaxMonths..MaxMonths given to add_months

----------------------------------------------------------------------------
(* Machine integers and chrono's year range *)

I32_MAX == 2147483647
I32_MIN == -I32_MAX - 1
MAX_YEAR == 262143
MIN_YEAR == -262144
MinutesPerDay == 1440

Point(y, m0, d, t) == [year |-> y, month0 |-> m0, day |-> d, tod |-> t]
NoPoint == Point(0, 0, 0, 0)

Some(v) == [tag |-> "Some", val |-> v]
None == [tag |-> "None", val |-> NoPoint]
Panic == [tag |-> "Panic", val |-> NoPoint]
IsSome(o) == o.tag = "Some"

\* Option::and_then; an abort while computing the receiver propagates
AndThen(o, F(_)) == IF IsSome(o) THEN F(o.val) ELSE o

\* Option::expect / Option::unwrap
Expect(o) == IF IsSome(o) THEN o ELSE Panic

\* Option::unwrap_or, the default already evaluated
UnwrapOr(o, default) == IF IsSome(o) THEN o.val ELSE default

\* i32::checked_add
CheckedAddI32(a, b) ==
    IF (b > 0 /\ a > I32_MAX - b) \/ (b < 0 /\ a < I32_MIN - b)
    THEN None ELSE Some(a + b)

\* two's-complement wrap-around of a + b for i32 a, b
WrappingAddI32(a, b) ==
    IF b > 0 /\ a > I32_MAX - b THEN (a - I32_MAX - 1) + (b - I32_MAX - 1)
    ELSE IF b < 0 /\ a < I32_MIN - b THEN (a + I32_MAX + 1) + (b + I32_MAX + 1)
    ELSE a + b

\* the `+` operator on i32: panics or wraps on overflow, by build profile
AddI32(a, b) ==
    IF (b > 0 /\ a > I32_MAX - b) \/ (b < 0 /\ a < I32_MIN - b)
    THEN (IF overflow_checks THEN Panic ELSE Some(WrappingAddI32(a, b)))
    ELSE Some(a + b)

\* A u32 is represented by its 32-bit pattern read as a two's-complement
\* integer: patterns 0..I32_MAX are the values themselves, a negative pattern
\* p is the value 2^32 + p.  `x as u32` of a small i64 keeps the pattern.
\* The `+ 1` on u32 overflows exactly at the pattern -1 (4294967295).
AddOneU32(p) ==
    IF p = -1 THEN (IF overflow_checks THEN Panic ELSE Some(0))
    ELSE Some(WrappingAddI32(p, 1))

\* two's-complement wrap-around of a * b, by shift and add
RECURSIVE WrappingMulI32(_, _)
WrappingMulI32(a, b) ==
    IF b = 0 THEN 0
    ELSE IF b = -1 THEN (IF a = I32_MIN THEN I32_MIN ELSE -a)
    ELSE LET half == WrappingMulI32(WrappingAddI32(a, a), b \div 2)
         IN  IF b % 2 = 1 THEN WrappingAddI32(half, a) ELSE half

Abs(x) == IF x < 0 THEN -x ELSE x

\* a * b lies outside i32 (decided without forming the product)
MulOverflowsI32(a, b) ==
    IF a = 0 \/ b = 0 \/ a = 1 \/ b = 1 THEN FALSE
    ELSE IF a = I32_MIN \/ b = I32_MIN THEN TRUE
    ELSE LET q == I32_MAX \div Abs(b)
             r == I32_MAX % Abs(b)
         IN  IF (a > 0) = (b > 0) THEN Abs(a) > q
             ELSE ~(Abs(a) <= q \/ (Abs(a) = q + 1 /\ r = Abs(b) - 1))

\* the `*` operator on i32
MulI32(a, b) ==
    IF ~MulOverflowsI32(a, b) THEN Some(a * b)
    ELSE IF overflow_checks THEN Panic ELSE Some(WrappingMulI32(a, b))

\* Rust's `/` and `%` on signed integers truncate toward zero
TruncDiv(a, b) == IF a >= 0 THEN a \div b ELSE -((-a) \div b)
TruncRem(a, b) == a - b * TruncDiv(a, b)

Min(a, b) == IF a <= b THEN a ELSE b

----------------------------------------------------------------------------
(* chrono's proleptic Gregorian calendar, as the library calls use it *)

LeapRule(y) == (y % 4 = 0 /\ y % 100 # 0) \/ y % 400 = 0

\* number of days of month `m` (1..12) of year `y`
DaysInMonth(y, m) ==
    IF m = 2 THEN (IF LeapRule(y) THEN 29 ELSE 28)
    ELSE IF m \in {4, 6, 9, 11} THEN 30 ELSE 31

YearInRange(y) == MIN_YEAR <= y /\ y <= MAX_YEAR

\* NaiveDate::from_ymd_opt(year, month, day); month and day are u32 patterns
FromYmdOpt(y, m, d) ==
    IF YearInRange(y) /\ 1 <= m /\ m <= 12 /\ 1 <= d /\ d <= DaysInMonth(y, m)
    THEN Some(Point(y, m - 1, d, 0)) ELSE None

\* NaiveDate::from_ymd(year, month, day): from_ymd_opt(..).expect(..)
FromYmd(y, m, d) == Expect(FromYmdOpt(y, m, d))

\* NaiveDate::pred(): pred_opt().expect("out of bound")
Pred(p) ==
    IF p.day > 1 THEN Some([p EXCEPT !.day = p.day - 1])
    ELSE IF p.month0 > 0
         THEN Some([p EXCEPT !.month0 = p.month0 - 1,
                             !.day = DaysInMonth(p.year, p.month0)])
    ELSE IF p.year > MIN_YEAR
         THEN Some([p EXCEPT !.year = p.year - 1, !.month0 = 11, !.day = 31])
    ELSE Panic

\* days since 1970-01-01 of a calendar date (month 1..12)
DaysFromCivil(y, m, d) ==
    LET yy  == IF m <= 2 THEN y - 1 ELSE y
        era == yy \div 400
        yoe == yy - era * 400
        mp  == (m + 9) % 12
        doy == (153 * mp + 2) \div 5 + d - 1
        doe == yoe * 365 + yoe \div 4 - yoe \div 100 + doy
    IN  era * 146097 + doe - 719468

\* the calendar date <<year, month 1..12, day>> of a day number
CivilFromDays(z0) ==
    LET z   == z0 + 719468
        era == z \div 146097
        doe == z - era * 146097
        yoe == (doe - doe \div 1460 + doe \div 36524 - doe \div 146096) \div 365
        doy == doe - (365 * yoe + yoe \div 4 - yoe \div 100)
        mp  == (5 * doy + 2) \div 153
        d   == doy - (153 * mp + 2) \div 5 + 1
        m   == IF mp < 10 THEN mp + 3 ELSE mp - 9
        y   == yoe + era * 400
    IN  <<IF m <= 2 THEN y + 1 ELSE y, m, d>>

MinDay == DaysFromCivil(MIN_YEAR, 1, 1)
MaxDay == DaysFromCivil(MAX_YEAR, 12, 31)

\* DateTime::checked_add_signed(rhs), rhs a whole number of minutes
CheckedAddSigned(p, minutes) ==
    LET total == p.tod + minutes
        days  == DaysFromCivil(p.year, p.month0 + 1, p.day) + total \div MinutesPerDay
        ymd   == CivilFromDays(days)
    IN  IF days < MinDay \/ days > MaxDay THEN None
        ELSE Some(Point(ymd[1], ymd[2] - 1, ymd[3], total % MinutesPerDay))

\* Datelike::with_year on DateTime<Utc>: None when the date does not exist
WithYear(p, y) ==
    IF IsSome(FromYmdOpt(y, p.month0 + 1, p.day))
    THEN Some([p EXCEPT !.year = y]) ELSE None

\* PartialOrd on DateTime<Utc>: a < b
Less(a, b) ==
    \/ a.year < b.year
    \/ a.year = b.year /\ a.month0 < b.month0
    \/ a.year = b.year /\ a.month0 = b.month0 /\ a.day < b.day
    \/ a.year = b.year /\ a.month0 = b.month0 /\ a.day = b.day /\ a.tod < b.tod

----------------------------------------------------------------------------
(* src/src/lib.rs *)

is_leap_year(year) == IsSome(FromYmdOpt(year, 2, 29))

\* `month` is one-based.  The argument of unwrap_or is evaluated before the
\* call, whether or not the receiver is None.
last_day_of_month(year, month) ==
    AndThen(AddOneU32(month), LAMBDA m1 :
    AndThen(AddI32(year, 1), LAMBDA y1 :
    AndThen(FromYmd(y1, 1, 1), LAMBDA fallback :
    AndThen(Pred(UnwrapOr(FromYmdOpt(year, m1, 1), fallback)), LAMBDA p :
    Some(p.day)))))

last_day_of_month_0(year, month_0) ==
    AndThen(AddOneU32(month_0), LAMBDA m : last_day_of_month(year, m))

----------------------------------------------------------------------------
(* src/src/calendar_duration.rs *)

CalendarDuration(e, m, y) == [duration |-> e, months |-> m, years |-> y]

add_years(p, years) ==
    AndThen(CheckedAddI32(p.year, years), LAMBDA y : WithYear(p, y))

\* next_month_0 is the u32 pattern of `(next_month_0 % 12) as u32`
add_months_naive_date(date, months) ==
    LET additional_years == TruncDiv(date.month0 + months, 12)
        next_month_0     == TruncRem(date.month0 + months, 12)
    IN  IF additional_years >= I32_MAX THEN None
        ELSE AndThen(CheckedAddI32(date.year, additional_years), LAMBDA next_year :
             AndThen(last_day_of_month_0(next_year, next_month_0), LAMBDA last :
             AndThen(AddOneU32(next_month_0), LAMBDA m1 :
             FromYmdOpt(next_year, m1, Min(date.day, last)))))

add_months_naive_dt(p, months) ==
    AndThen(add_months_naive_date(p, months),
            LAMBDA date : Some([date EXCEPT !.tod = p.tod]))

add_months_dt(p, months) == add_months_naive_dt(p, months)

checked_add(p, d) ==
    AndThen(AndThen(CheckedAddSigned(p, d.duration),
                    LAMBDA x : add_years(x, d.years)),
            LAMBDA x : add_months_dt(x, d.months))

\* impl Mul<i32> for &CalendarDuration
mul(d, rhs) ==
    AndThen(MulI32(d.months, rhs), LAMBDA m :
    AndThen(MulI32(d.years, rhs), LAMBDA y :
    Some(CalendarDuration(d.duration * rhs, m, y))))

----------------------------------------------------------------------------
(* src/src/date_iterators.rs *)

\* (mutant) the n-th value as the previous value plus one step
RECURSIVE current_from_previous(_)
current_from_previous(n) ==
    IF n <= 0 THEN checked_add(from, CalendarDuration(0, 0, 0))
    ELSE AndThen(current_from_previous(n - 1), LAMBDA p : checked_add(p, duration))

\* OpenEndedDateIterator::current with the counter at n
current(n) == AndThen(mul(duration, n), LAMBDA d : checked_add(from, d))

\* What one call to next does: the value returned, the counter afterwards,
\* whether the call aborted, and whether the bound turned a value into None.
Ret(o, n) == [out |-> o, iterations |-> n, panic |-> FALSE, bound |-> FALSE]
Abort(n) == [out |-> Panic, iterations |-> n, panic |-> TRUE, bound |-> FALSE]

\* `let next = ..; self.iterations += 1; next`
Advance(next, inc, n) ==
    IF next.tag = "Panic" \/ inc.tag = "Panic" THEN Abort(n) ELSE Ret(next, inc.val)

\* impl Iterator for OpenEndedDateIterator
OpenEndedNext(n) == Advance(current(n), AddI32(n, 1), n)

\* `Some((start, try_opt!(self.iter.current())))`
PairWith(r, after) ==
    IF after.tag = "Panic" THEN Abort(r.iterations)
    ELSE IF IsSome(after) THEN Ret(Some(<<r.out.val, after.val>>), r.iterations)
    ELSE Ret(None, r.iterations)

\* (mutant) the look-ahead consumes a step of the underlying iterator
LookaheadConsumes(r) ==
    IF r.panic \/ ~IsSome(r.out) THEN r
    ELSE PairWith([r EXCEPT !.iterations = r.iterations + 1], current(r.iterations))

\* `.and_then(|start| ..)` on the result r of self.iter.next()
Lookahead(r) ==
    IF r.panic \/ ~IsSome(r.out) THEN r ELSE PairWith(r, current(r.iterations))

\* impl Iterator for OpenEndedPairwiseDateIterator
OpenEndedPairwiseNext(n) == Lookahead(OpenEndedNext(n))

\* (mutant) the bound is inclusive
ClosedFilterInclusive(r) ==
    IF r.panic \/ ~IsSome(r.out) THEN r
    ELSE IF ~Less(to, r.out.val) THEN r
    ELSE [r EXCEPT !.out = None, !.bound = TRUE]

\* `.and_then(|dt| if dt < self.to { Some(dt) } else { None })`
ClosedFilter(r) ==
    IF r.panic \/ ~IsSome(r.out) THEN r
    ELSE IF Less(r.out.val, to) THEN r
    ELSE [r EXCEPT !.out = None, !.bound = TRUE]

\* impl Iterator for ClosedDateIterator
ClosedNext(n) == ClosedFilter(OpenEndedNext(n))

\* (mutant) the second element of the pair is tested against the bound
ClosedPairwiseFilterOnSecond(r) ==
    IF r.panic \/ ~IsSome(r.out) THEN r
    ELSE IF Less(r.out.val[2], to) THEN r
    ELSE [r EXCEPT !.out = None, !.bound = TRUE]

\* (mutant) a pair starting at the bound is still yielded
ClosedPairwiseFilterInclusive(r) ==
    IF r.panic \/ ~IsSome(r.out) THEN r
    ELSE IF ~Less(to, r.out.val[1]) THEN r
    ELSE [r EXCEPT !.out = None, !.bound = TRUE]

\* `.and_then(|dts| if dts.0 < self.to { Some(dts) } else { None })`
ClosedPairwiseFilter(r) ==
    IF r.panic \/ ~IsSome(r.out) THEN r
    ELSE IF Less(r.out.val[1], to) THEN r
    ELSE [r EXCEPT !.out = None, !.bound = TRUE]

\* impl Iterator for ClosedPairwiseDateIterator
ClosedPairwiseNext(n) == ClosedPairwiseFilter(OpenEndedPairwiseNext(n))

\* the caller takes the result of one call to next
Return(r) ==
    /\ iterations' = r.iterations
    /\ panicked' = r.panic
    /\ out' = r.out
    /\ calls' = IF r.panic THEN calls ELSE calls + 1
    /\ returned' = IF r.panic THEN returned ELSE Append(returned, r.out)
    /\ bound_hit' = (bound_hit \/ r.bound)
    /\ UNCHANGED <<overflow_checks, from, duration, to, kind>>
    /\ UNCHANGED fnVars

CanCall(k) == kind = k /\ ~panicked /\ calls < MaxCalls

NextOpenEnded == CanCall("open") /\ Return(OpenEndedNext(iterations))

NextOpenEndedPairwise ==
    CanCall("open_pairwise") /\ Return(OpenEndedPairwiseNext(iterations))

NextClosed == CanCall("closed") /\ Return(ClosedNext(iterations))

NextClosedPairwise ==
    CanCall("closed_pairwise") /\ Return(ClosedPairwiseNext(iterations))

----------------------------------------------------------------------------
(* The functions of calendar_duration.rs called on their own *)

FnReturn(r) ==
    /\ res' = r
    /\ pc' = "done"
    /\ UNCHANGED <<overflow_checks, op, dt, dur, acc>>
    /\ UNCHANGED itVars

\* add_months_dt(&dt, dur.months)
CallAddMonths ==
    /\ pc = "start" /\ op = "add_months"
    /\ FnReturn(add_months_dt(dt, dur.months))

\* add_years(&dt, dur.years)
CallAddYears ==
    /\ pc = "start" /\ op = "add_years"
    /\ FnReturn(add_years(dt, dur.years))

FnStep(a, to_pc) ==
    /\ acc' = a
    /\ pc' = to_pc
    /\ UNCHANGED <<overflow_checks, op, dt, dur, res>>
    /\ UNCHANGED itVars

\* checked_add: `dt.clone().checked_add_signed(duration.duration)`
CheckedAddElapsed ==
    /\ pc = "start" /\ op = "checked_add"
    /\ FnStep(CheckedAddSigned(dt, dur.duration), "years")

\* (mutant) add_years applied to the original point, not to the chain's value
CheckedAddYearsOnOriginal ==
    /\ pc = "years"
    /\ FnStep(AndThen(acc, LAMBDA x : add_years(dt, dur.years)), "months")

\* checked_add: `.and_then(|dt| add_years(&dt, duration.years))`
CheckedAddYears ==
    /\ pc = "years"
    /\ FnStep(AndThen(acc, LAMBDA x : add_years(x, dur.years)), "months")

\* checked_add: `.and_then(|dt| add_months_dt(&dt, duration.months))`
CheckedAddMonths ==
    /\ pc = "months"
    /\ FnReturn(AndThen(acc, LAMBDA x : add_months_dt(x, dur.months)))

----------------------------------------------------------------------------
(* Inputs *)

ScenarioOrigin == Point(1996, 11, 25, 999)      \* 1996-12-25T16:39
ScenarioStep == CalendarDuration(2884, 1, 3)    \* 3 y + 1 mo + 2 d + 4 min
ScenarioBound == Point(2006, 2, 31, 1011)       \* 2006-03-31T16:51

Origins ==
    { ScenarioOrigin,
      Point(2000, 0, 31, 0),
      Point(2000, 1, 29, 720),
      Point(1997, 0, 15, 0),
      Point(MAX_YEAR, 11, 31, 1439) }

Steps ==
    { ScenarioStep,
      CalendarDuration(0, 1, 0),
      CalendarDuration(0, -1, 0),
      CalendarDuration(0, 0, 1),
      CalendarDuration(1440, 0, 0),
      CalendarDuration(-1440, 0, 0),
      CalendarDuration(0, 0, 100000),
      CalendarDuration(0, 0, 0) }

Bounds ==
    { ScenarioBound,
      ScenarioOrigin,
      Point(2000, 2, 1, 0),
      Point(1996, 11, 24, 0) }

Kinds == {"open", "open_pairwise", "closed", "closed_pairwise"}

NoDuration == CalendarDuration(0, 0, 0)

FnIdle ==
    /\ pc = "idle" /\ op = "none" /\ dt = NoPoint /\ dur = NoDuration
    /\ acc = None /\ res = None

\* date_iterator_from(dt, duration), then .to(to) and .pairwise() by kind
Init ==
    /\ overflow_checks \in BOOLEAN
    /\ from \in Origins
    /\ duration \in Steps
    /\ to \in Bounds
    /\ kind \in Kinds
    /\ iterations = 0
    /\ out = None
    /\ calls = 0
    /\ returned = <<>>
    /\ bound_hit = FALSE
    /\ panicked = FALSE
    /\ FnIdle

Next ==
    \/ NextOpenEnded
    \/ NextOpenEndedPairwise
    \/ NextClosed
    \/ NextClosedPairwise

Spec == Init /\ [][Next]_vars

----------------------------------------------------------------------------
(* Inputs of the functions called on their own *)

ValidDate(p) == IsSome(FromYmdOpt(p.year, p.month0 + 1, p.day))

Dates ==
    { p \in [year : {1996, 1997, 2000, MIN_YEAR, MAX_YEAR}, month0 : 0..11,
              day : {1, 28, 29, 30, 31}, tod : {999}] : ValidDate(p) }

MonthCounts == (-MaxMonths..MaxMonths) \cup {-3600000, 3600000}

YearCounts == {-300000, -4, -1, 0, 1, 3, 4, 400, 300000, I32_MAX}

AddPoints ==
    { Point(1996, 11, 19, 999),
      Point(1996, 11, 31, 999),
      Point(2000, 1, 29, 720),
      Point(1997, 0, 15, 0),
      Point(1999, 11, 31, 1439),
      Point(MAX_YEAR, 11, 31, 1439) }

AddDurations ==
    [duration : {0, 1, 4380, -1440}, months : {0, 2, 5, 14, -1, 3600000},
     years : {0, 1, 4, -1, 300000}]

ItIdle ==
    /\ from = NoPoint /\ duration = NoDuration /\ to = NoPoint /\ kind = "none"
    /\ iterations = 0 /\ out = None /\ calls = 0 /\ returned = <<>>
    /\ bound_hit = FALSE /\ panicked = FALSE

InitAdd ==
    /\ overflow_checks \in BOOLEAN
    /\ pc = "start"
    /\ \/ op = "add_months" /\ dt \in Dates
          /\ \E n \in MonthCounts : dur = CalendarDuration(0, n, 0)
       \/ op = "checked_add" /\ dt \in AddPoints /\ dur \in AddDurations
       \/ op = "add_years" /\ dt \in Dates
          /\ \E n \in YearCounts : dur = CalendarDuration(0, 0, n)
    /\ acc = None
    /\ res = None
    /\ ItIdle

NextAdd ==
    \/ CallAddMonths
    \/ CallAddYears
    \/ CheckedAddElapsed
    \/ CheckedAddYears
    \/ CheckedAddMonths

SpecAdd == InitAdd /\ [][NextAdd]_vars

----------------------------------------------------------------------------
(* Properties of add_months and checked_add, checked under SpecAdd *)

\* floor division and modulus of the target month index
TargetYear(p, n) == p.year + ((p.month0 + n) \div 12)
TargetMonth0(p, n) == (p.month0 + n) % 12

\* the date the month arithmetic is specified to give
Clamped(p, n) ==
    Point(TargetYear(p, n), TargetMonth0(p, n),
          Min(p.day, DaysInMonth(TargetYear(p, n), TargetMonth0(p, n) + 1)), p.tod)

AddMonthsDone == pc = "done" /\ op = "add_months"
CheckedAddDone == pc = "done" /\ op = "checked_add"

\* C1: for every valid date and month count n with month0 + n >= 0 and a
\* representable target year, add_months returns year + (month0 + n) div 12,
\* month (month0 + n) mod 12 and the day clamped to the target month's length.
C1_AddMonthsClamps ==
    (AddMonthsDone /\ dt.month0 + dur.months >= 0
        /\ YearInRange(TargetYear(dt, dur.months)))
    => res = Some(Clamped(dt, dur.months))

\* C2: for every valid date and negative month count n with month0 + n < 0,
\* add_months floors: the year offset is floor((month0 + n) / 12), the month is
\* (month0 + n) mod 12 in 0..11, and the clamped date is returned.
C2_AddMonthsFloors ==
    (AddMonthsDone /\ dt.month0 + dur.months < 0
        /\ YearInRange(TargetYear(dt, dur.months)))
    => res = Some(Clamped(dt, dur.months))

\* C3: checked_add is total: it returns the fully applied point or no result,
\* and never aborts.
C3_CheckedAddTotal == CheckedAddDone => res.tag \in {"Some", "None"}

\* C4: checked_add is the elapsed part, then add_years on that result, then
\* add_months on that result; a step without result leaves the call without
\* result (add_simple: 1996-12-19T16:39 + 3d 1h + 5mo + 1y = 1998-05-22T17:39).
C4_ElapsedYearsMonths ==
    CheckedAddDone =>
        LET a == CheckedAddSigned(dt, dur.duration)
            b == add_years(a.val, dur.years)
        IN  /\ ~IsSome(a) => res = None
            /\ IsSome(a) /\ ~IsSome(b) => res = None
            /\ IsSome(a) /\ IsSome(b) => res = add_months_dt(b.val, dur.months)
            /\ (dt = Point(1996, 11, 19, 999) /\ dur = CalendarDuration(4380, 5, 1))
                   => res = Some(Point(1998, 4, 22, 1059))

\* a call where every part is applied and each step changes the point
C4_Witness ==
    /\ CheckedAddDone
    /\ dt = Point(1996, 11, 19, 999) /\ dur = CalendarDuration(4380, 5, 1)
    /\ res = Some(Point(1998, 4, 22, 1059))

----------------------------------------------------------------------------
(* Properties of the iterators, checked under Spec *)

\* step * k in unbounded integers
Times(d, k) == CalendarDuration(d.duration * k, d.months * k, d.years * k)

\* the k-th point of the sequence, computed from the origin
Underlying(k) == checked_add(from, Times(duration, k))

\* index of the first call that returned None; Len(returned) + 1 if none did
FirstEnd ==
    IF \E k \in 1..Len(returned) : ~IsSome(returned[k])
    THEN CHOOSE k \in 1..Len(returned) :
            /\ ~IsSome(returned[k])
            /\ \A j \in 1..(k - 1) : IsSome(returned[j])
    ELSE Len(returned) + 1

\* the values yielded up to the first end of the sequence
Yielded == [k \in 1..(FirstEnd - 1) |-> returned[k].val]

Scenario == from = ScenarioOrigin /\ duration = ScenarioStep
ScenarioPoints ==
    << ScenarioOrigin,                   \* 1996-12-25T16:39
       Point(2000, 0, 27, 1003),         \* 2000-01-27T16:43
       Point(2003, 1, 28, 1007),         \* 2003-02-28T16:47
       Point(2006, 2, 31, 1011) >>       \* 2006-03-31T16:51

\* C5: the k-th call to next of an open-ended iterator returns
\* checked_add(origin, step * k) computed from the origin; the counter starts
\* at 0 and grows by one per call, the first value is the origin, and the
\* scenario yields 1996-12-25, 2000-01-27, 2003-02-28, 2006-03-31.
C5_OpenEndedFromOrigin ==
    kind = "open" =>
        /\ iterations = calls
        /\ calls = Len(returned)
        /\ \A k \in 1..Len(returned) : returned[k] = Underlying(k - 1)
        /\ Len(returned) >= 1 => returned[1] = Some(from)
        /\ (Scenario /\ Len(returned) >= 4)
               => \A k \in 1..4 : returned[k] = Some(ScenarioPoints[k])

\* the scenario after four calls, the third value clamped to February 28
C5_Witness ==
    /\ kind = "open" /\ Scenario /\ calls = 4
    /\ returned[3] = Some(Point(2003, 1, 28, 1007))
    /\ returned[4] = Some(Point(2006, 2, 31, 1011))

\* C6: up to its first end, a closed iterator yields exactly the longest
\* prefix of the underlying sequence whose values are strictly less than the
\* bound: in order, none skipped, and the first value >= bound ends it.
C6_ClosedYieldsPrefixBelowBound ==
    kind = "closed" =>
        /\ \A k \in 1..(FirstEnd - 1) :
              /\ returned[k] = Underlying(k - 1)
              /\ Less(returned[k].val, to)
        /\ FirstEnd <= Len(returned) =>
              \/ ~IsSome(Underlying(FirstEnd - 1))
              \/ ~Less(Underlying(FirstEnd - 1).val, to)

\* three values yielded, then the value equal to the bound ends the sequence
C6_Witness ==
    /\ kind = "closed" /\ Scenario /\ to = ScenarioBound
    /\ FirstEnd = 4 /\ Len(returned) >= 4
    /\ Underlying(3) = Some(to)
    /\ Yielded = <<ScenarioPoints[1], ScenarioPoints[2], ScenarioPoints[3]>>

ScenarioPairs ==
    << <<ScenarioPoints[1], ScenarioPoints[2]>>,
       <<ScenarioPoints[2], ScenarioPoints[3]>>,
       <<ScenarioPoints[3], ScenarioPoints[4]>> >>

\* C8: the pairwise iterator over a closed sequence yields (p[i], p[i+1]) in
\* order as long as p[i] < bound, whether or not p[i+1] < bound, and ends at
\* the first p[i] >= bound; the scenario with bound 2006-03-31T16:51 yields
\* three pairs, the last (2003-02-28T16:47, 2006-03-31T16:51).
C8_ClosedPairwiseTestsFirstOnly ==
    kind = "closed_pairwise" =>
        /\ \A k \in 1..(FirstEnd - 1) :
              /\ returned[k].val = <<Underlying(k - 1).val, Underlying(k).val>>
              /\ IsSome(Underlying(k - 1)) /\ IsSome(Underlying(k))
              /\ Less(Underlying(k - 1).val, to)
        /\ FirstEnd <= Len(returned) =>
              \/ ~IsSome(Underlying(FirstEnd - 1))
              \/ ~IsSome(Underlying(FirstEnd))
              \/ ~Less(Underlying(FirstEnd - 1).val, to)
        /\ (Scenario /\ to = ScenarioBound /\ FirstEnd <= Len(returned))
               => Yielded = ScenarioPairs

\* a pair is yielded whose second element equals the bound
C8_Witness ==
    /\ kind = "closed_pairwise" /\ Scenario /\ to = ScenarioBound
    /\ calls = 3 /\ IsSome(out)
    /\ out.val = <<Point(2003, 1, 28, 1007), to>>

\* C9 as stated: in the scenario the closed pairwise iterator yields exactly
\* two pairs and 2003-02-28T16:47 never starts a pair.
C9_ExactlyTwoPairs ==
    (kind = "closed_pairwise" /\ Scenario /\ to = ScenarioBound) =>
        /\ FirstEnd - 1 <= 2
        /\ FirstEnd <= Len(returned) =>
              Yielded = <<ScenarioPairs[1], ScenarioPairs[2]>>
        /\ \A k \in 1..Len(returned) :
              IsSome(returned[k]) => returned[k].val[1] # ScenarioPoints[3]

\* C9 amended: in the scenario the closed pairwise iterator yields exactly
\* three pairs; 2003-02-28T16:47 starts the third, whose end is the bound, and
\* the fourth call ends the sequence.
C9_ExactlyThreePairs ==
    (kind = "closed_pairwise" /\ Scenario /\ to = ScenarioBound) =>
        /\ \A k \in 1..Len(returned) :
              IF k <= 3 THEN returned[k] = Some(ScenarioPairs[k])
              ELSE returned[k] = None
        /\ Len(returned) >= 3 => returned[3].val[1] = ScenarioPoints[3]

\* the sequence has ended after three pairs
C9_Witness ==
    /\ kind = "closed_pairwise" /\ Scenario /\ to = ScenarioBound
    /\ FirstEnd = 4 /\ Len(returned) = 4
    /\ Yielded = ScenarioPairs

\* C10: once a closed iterator has returned None because a value was at or
\* beyond the bound, every later call to next returns None.
C10_EndIsPermanent ==
    [][(kind = "closed" /\ bound_hit /\ calls' = calls + 1) => ~IsSome(out')]_vars

----------------------------------------------------------------------------
(* The open-ended iterator with steps whose multiples leave i32 *)

OverflowOrigins ==
    { ScenarioOrigin,
      Point(2000, 0, 31, 0),
      Point(1997, 0, 15, 0),
      Point(1999, 11, 31, 1439) }

OverflowSteps ==
    { CalendarDuration(0, 0, I32_MAX),          \* years * 2 wraps to -2
      CalendarDuration(0, 0, 1073741824),       \* years * 4 wraps to 0
      CalendarDuration(1440, 1, 1073741824),
      CalendarDuration(0, 0, -1073741824),
      CalendarDuration(0, 0, 100000),
      CalendarDuration(0, 1, 0),
      ScenarioStep }

\* date_iterator_from(dt, duration)
InitOverflow ==
    /\ overflow_checks \in BOOLEAN
    /\ from \in OverflowOrigins
    /\ duration \in OverflowSteps
    /\ to = ScenarioBound
    /\ kind = "open"
    /\ iterations = 0
    /\ out = None
    /\ calls = 0
    /\ returned = <<>>
    /\ bound_hit = FALSE
    /\ panicked = FALSE
    /\ FnIdle

NextOverflow == NextOpenEnded

SpecOverflow == InitOverflow /\ [][NextOverflow]_vars

----------------------------------------------------------------------------
(* Properties of the open-ended iterator under overflow, checked under
   SpecOverflow *)

\* months * k or years * k lies outside i32
ProductOverflows(k) ==
    MulOverflowsI32(duration.months, k) \/ MulOverflowsI32(duration.years, k)

\* applying the exact step * k to the origin leaves the representable range:
\* the elapsed part, the year sum, or the year the month sum lands in
ApplicationOverflows(k) ==
    LET s == Times(duration, k)
        a == CheckedAddSigned(from, s.duration)
        y == CheckedAddI32(a.val.year, s.years)
    IN  \/ ~IsSome(a)
        \/ ~IsSome(y)
        \/ ~YearInRange(y.val)
        \/ ~YearInRange(y.val + ((a.val.month0 + s.months) \div 12))

\* C11: the open-ended iterator turns overflow into the end of the sequence:
\* a call whose product months * counter or years * counter overflows returns
\* None, no point computed from a wrapped product is yielded, no call aborts,
\* and nothing but overflow ends the sequence.
C11_OverflowEndsSequence ==
    kind = "open" =>
        /\ ~panicked
        /\ \A k \in 1..Len(returned) :
              ProductOverflows(k - 1) => returned[k] = None
        /\ \A k \in 1..Len(returned) :
              (returned[k] = None /\ ~ProductOverflows(k - 1))
                 => ApplicationOverflows(k - 1)

----------------------------------------------------------------------------
(* Property of add_years, checked under SpecAdd *)

AddYearsDone == pc = "done" /\ op = "add_years"

\* C12: add_years has no result only when year + years leaves the
\* representable year range; otherwise it returns the point with the year
\* set and month, day and time of day unchanged, a day that does not exist
\* in the new year (February 29) being collapsed to a valid day.
C12_AddYearsFailsOnlyOnOverflow ==
    AddYearsDone =>
        LET y == CheckedAddI32(dt.year, dur.years)
        IN  IF ~IsSome(y) \/ ~YearInRange(y.val) THEN res = None
            ELSE /\ IsSome(res)
                 /\ res.val.year = y.val
                 /\ res.val.tod = dt.tod
                 /\ ValidDate(res.val)
                 /\ ValidDate([dt EXCEPT !.year = y.val])
                       => res.val = [dt EXCEPT !.year = y.val]

====
